---- MODULE Spec2Model ----
(***************************************************************************)
(* The two solver facades of the repository:                               *)
(*   lprog(A, b, c, u, l, saveOpt, quietOpt)          LP/LP_final.ipynb    *)
(*   mip(A, b, c, u, l, varType, saveOpt, quietOpt)   MIP/MIP_final.ipynb  *)
(* Each builds a cplex.Cplex() problem from dense data, optionally mutes   *)
(* the engine's four streams, and inside try/except solves it, optionally  *)
(* writes it to an .lp file, and reads the solution back.                  *)
(*                                                                         *)
(* The engine (cplex) is an external collaborator.  Its behaviour during   *)
(* one call is a nondeterministic choice fixed when the call starts        *)
(* (variable engine): it rejects malformed variables, rejects malformed    *)
(* constraints, fails inside solve(), solves but has no solution (CPLEX    *)
(* Error 1217, as in the notebooks' infeasible cells), or solves to        *)
(* optimality.  File writes are assumed to succeed.                        *)
(*                                                                         *)
(* Python lists and strings are sequences (1-based here); the column       *)
(* indices the code computes with range() keep their 0-based values.       *)
(***************************************************************************)
EXTENDS Integers, Sequences, FiniteSets, TLC

VARIABLES
    pc,        \* position inside the current call
    facade,    \* "lprog" or "mip": the function being executed
    args,      \* the call's arguments
    engine,    \* how the engine behaves during this call
    noRow,     \* local noRow
    noCol,     \* local noCol
    my_prob,   \* the cplex.Cplex() object of the call
    trace,     \* engine methods invoked by this call, in order
    out,       \* text emitted during this call: <<channel, message>>
    ret,       \* value returned to the caller
    exc,       \* exception in flight inside the try block
    raised,    \* exception that escaped to the caller
    fs,        \* files in the working directory
    prev       \* the previous call, when this call repeats its inputs

vars == <<pc, facade, args, engine, noRow, noCol, my_prob, trace, out, ret,
          exc, raised, fs, prev>>

----------------------------------------------------------------------------
(* Bounds of the model *)

MaxRow == 2
MaxCol == 2

Coef == {0, 1, 2}

----------------------------------------------------------------------------
(* Inputs *)

Facades == {"lprog", "mip"}

\* The sample matrix of a shape: zeros on the diagonal, distinct entries
\* elsewhere.
SampleMatrix(R, C) ==
    [r \in 1..R |-> [k \in 1..C |-> IF r = k THEN 0 ELSE 10 * r + k]]

SampleVector(n, v) == [i \in 1..n |-> v + i]

\* varType in the style of the notebook's "CCI": continuous, last one integer.
SampleTypes(n) == [i \in 1..n |-> IF i = n THEN "I" ELSE "C"]

Defects == {"none", "row_len", "b_len", "c_len", "u_len", "l_len",
            "types_len", "types_char"}

DefectsOf(f, R) ==
    (Defects \ (IF f = "lprog" THEN {"types_len", "types_char"} ELSE {}))
             \ (IF R = 1 THEN {"row_len"} ELSE {})

MkArgs(f, R, C, d, save, quiet) ==
    LET M  == SampleMatrix(R, C)
        ty == SampleTypes(IF d = "types_len" THEN C + 1 ELSE C)
    IN [A        |-> IF d = "row_len"
                       THEN [M EXCEPT ![R] = Append(M[R], 7)] ELSE M,
        b        |-> SampleVector(IF d = "b_len" THEN R + 1 ELSE R, 20),
        c        |-> SampleVector(IF d = "c_len" THEN C + 1 ELSE C, 0),
        u        |-> SampleVector(IF d = "u_len" THEN C + 1 ELSE C, 40),
        l        |-> SampleVector(IF d = "l_len" THEN C + 1 ELSE C, -1),
        varType  |-> IF f = "lprog" THEN <<>>
                     ELSE IF d = "types_char" THEN [ty EXCEPT ![1] = "X"]
                     ELSE ty,
        saveOpt  |-> save,
        quietOpt |-> quiet]

NoArgs ==
    [A |-> <<>>, b |-> <<>>, c |-> <<>>, u |-> <<>>, l |-> <<>>,
     varType |-> <<>>, saveOpt |-> FALSE, quietOpt |-> FALSE]

\* Every matrix over Coef with 1..MaxRow rows of 1..MaxCol entries each,
\* rows of unequal length included.
MatrixRows == UNION {[1..C -> Coef] : C \in 1..MaxCol}

Matrices == UNION {[1..R -> MatrixRows] : R \in 1..MaxRow}

----------------------------------------------------------------------------
(* The engine *)

EngineKinds == {"reject_variables", "reject_constraints", "solve_error",
                "no_solution", "optimal"}

Engines ==
    [kind : EngineKinds \ {"optimal"}, val : {0}, obj : {0}]
    \cup [kind : {"optimal"}, val : {1}, obj : {-1, 2}]

\* Column types the engine knows.
CplexTypes == {"C", "I", "B", "S", "N"}

\* variables.add gets as many obj, ub, lb (and types) entries as names, and
\* only types the engine knows.
ColumnsWellFormed(a) ==
    LET n == Len(a.A[1])
    IN /\ Len(a.c) = n
       /\ Len(a.u) = n
       /\ Len(a.l) = n
       /\ a.varType # <<>> =>
            /\ Len(a.varType) = n
            /\ \A i \in 1..Len(a.varType) : a.varType[i] \in CplexTypes

\* linear_constraints.add gets as many rhs entries as rows, and in every row
\* as many values as indices.
RowsWellFormed(a) ==
    /\ Len(a.b) = Len(a.A)
    /\ \A j \in 1..Len(a.A) : Len(a.A[j]) = Len(a.A[1])

\* The engine rejects only data that are malformed; whether it rejects all
\* malformed data is left open.
EngineMay(e, a) ==
    /\ e.kind = "reject_variables" => ~ColumnsWellFormed(a)
    /\ e.kind = "reject_constraints" => ~RowsWellFormed(a)

NoEngine == [kind |-> "none", val |-> 0, obj |-> 0]

EngineChannels == {"log", "error", "warning", "results"}

NoExc == [cls |-> "none", msg |-> ""]

\* cplex.Cplex(), were the engine object of the previous call kept.
StaleCplex == [my_prob EXCEPT !.streams = EngineChannels]

\* cplex.Cplex(): an empty problem whose four streams are all open.
NewCplex ==
    [sense    |-> "minimize",
     obj      |-> <<>>, ub |-> <<>>, lb |-> <<>>, types |-> <<>>,
     names    |-> <<>>,
     lin_expr |-> <<>>, senses |-> <<>>, rhs |-> <<>>,
     streams  |-> EngineChannels]

\* No engine object: before the first call and after a call's frame is gone.
NoProb ==
    [sense    |-> "none",
     obj      |-> <<>>, ub |-> <<>>, lb |-> <<>>, types |-> <<>>,
     names    |-> <<>>,
     lin_expr |-> <<>>, senses |-> <<>>, rhs |-> <<>>,
     streams  |-> {}]

NumVars(prob) == Len(prob.names)

\* A line of text reaches the reader unless it goes to an engine stream
\* that has been set to None.
Emit(o, prob, ch, msg) ==
    IF ch \in EngineChannels /\ ch \notin prob.streams
      THEN o
      ELSE Append(o, <<ch, msg>>)

----------------------------------------------------------------------------
(* The code of lprog / mip, statement by statement *)

\* my_colnames = ["x"+str(i) for i in range(noCol)]
ColNames(n) == [k \in 1..n |-> <<"x", k - 1>>]

\* my_prob.variables.add(obj=c, ub=u, lb=l, [types=varType,] names=...):
\* the engine appends the new columns to the ones it already holds.
AddedVariables(prob, a, names) ==
    [prob EXCEPT !.obj   = prob.obj \o a.c,
                 !.ub    = prob.ub \o a.u,
                 !.lb    = prob.lb \o a.l,
                 !.types = prob.types \o a.varType,
                 !.names = prob.names \o names]

\* The translation, were zero entries compressed away.
LinExprSparse(A, nR, nC) ==
    [j \in 1..nR |->
        << SelectSeq([i \in 1..nC |-> i - 1], LAMBDA k : A[j][k + 1] # 0),
           SelectSeq(A[j], LAMBDA v : v # 0) >>]

\* A = [[[i for i in range(noCol)], A[j]] for j in range(noRow)]
LinExpr(A, nR, nC) ==
    [j \in 1..nR |-> << [i \in 1..nC |-> i - 1], A[j] >>]

\* "L" * noRow
Repeat(ch, n) == [i \in 1..n |-> ch]

\* senses=["L" * noRow]
Senses(nR) == << Repeat("L", nR) >>

\* my_prob.linear_constraints.add(lin_expr=A, senses=[...], rhs=b)
AddedConstraints(prob, lin, sen, rhs) ==
    [prob EXCEPT !.lin_expr = prob.lin_expr \o lin,
                 !.senses   = prob.senses \o sen,
                 !.rhs      = prob.rhs \o rhs]

\* if quietOpt: set_log_stream(None); set_error_stream(None);
\*              set_warning_stream(None); set_results_stream(None)
QuietStreams(prob, quiet) ==
    IF quiet
      THEN [prob EXCEPT !.streams = prob.streams
                          \ {"log", "error", "warning", "results"}]
      ELSE prob

\* if saveOpt, were the flag ignored.
SaveAlways(a) == TRUE

\* if saveOpt:
SaveRequested(a) == a.saveOpt

\* The file name, were mip's copied from lprog unchanged.
FileNameCopied(f) == "lprog.lp"

\* The file name in my_prob.write(...)
FileName(f) == IF f = "lprog" THEN "lprog.lp" ELSE "mip.lp"

\* The files the two facades can leave in the working directory.
FileNames == {"lprog.lp", "mip.lp"}

NoFile == <<>>

\* What my_prob.write(name) puts in the file: the sections of an LP file.
LpText(prob) ==
    << IF prob.sense = "maximize" THEN "Maximize" ELSE "Minimize",
       "Subject To", "Bounds", "End" >>

\* except CplexError, were it to match the class itself and not its
\* subclasses.
ExceptMatchesExactClass(e) == e.cls = "CplexError"

\* except CplexError as exc: CplexSolverError is a subclass of CplexError.
ExceptMatches(e) == e.cls \in {"CplexError", "CplexSolverError"}

\* print(exc), were the message sent to the engine's error stream.
PrintExcOnErrorStream(o, prob, e) == Emit(o, prob, "error", e.msg)

\* print(exc): Python's standard output, not an engine stream.
PrintExc(o, prob, e) == Emit(o, prob, "stdout", e.msg)

\* get_values(), were the values to travel on the results stream.
GetValuesFromResultsStream(prob, e) ==
    IF "results" \in prob.streams
      THEN [i \in 1..NumVars(prob) |-> e.val]
      ELSE <<>>

\* x = my_prob.solution.get_values(): one value per column of the problem.
GetValues(prob, e) == [i \in 1..NumVars(prob) |-> e.val]

\* return x, obj
Solved(x, obj) == [status |-> "returned", x |-> x, obj |-> obj]

\* return [], -1
Failed == [status |-> "returned", x |-> <<>>, obj |-> -1]

NoRet == [status |-> "none", x |-> <<>>, obj |-> 0]

NoPrev == [valid |-> FALSE, ret |-> NoRet, raised |-> NoExc,
           trace |-> <<>>, quietOpt |-> FALSE]

Ev(op) == <<op, "">>

----------------------------------------------------------------------------
(* State machine *)

Init ==
    /\ pc = "idle"
    /\ facade = "lprog"
    /\ args = NoArgs
    /\ engine = NoEngine
    /\ noRow = 0
    /\ noCol = 0
    /\ my_prob = NoProb
    /\ trace = <<>>
    /\ out = <<>>
    /\ ret = NoRet
    /\ exc = NoExc
    /\ raised = NoExc
    /\ fs = [n \in FileNames |-> NoFile]
    /\ prev = NoPrev

\* def f(...): noRow, noCol = len(A), len(A[0]); my_prob = cplex.Cplex();
\* my_prob.objective.set_sense(maximize)
Enter(f, a, e, p) ==
    /\ facade' = f
    /\ args' = a
    /\ engine' = e
    /\ noRow' = Len(a.A)
    /\ noCol' = Len(a.A[1])
    /\ my_prob' = [NewCplex EXCEPT !.sense = "maximize"]
    /\ trace' = << Ev("Cplex"), Ev("set_sense") >>
    /\ out' = <<>>
    /\ ret' = NoRet
    /\ exc' = NoExc
    /\ raised' = NoExc
    /\ prev' = p
    /\ pc' = "variables"
    /\ UNCHANGED fs

Lprog ==
    /\ pc = "idle"
    /\ \E R \in 1..MaxRow, C \in 1..MaxCol, save \in BOOLEAN, quiet \in BOOLEAN,
       e \in Engines :
      \E d \in DefectsOf("lprog", R) :
        /\ EngineMay(e, MkArgs("lprog", R, C, d, save, quiet))
        /\ Enter("lprog", MkArgs("lprog", R, C, d, save, quiet), e, NoPrev)

Mip ==
    /\ pc = "idle"
    /\ \E R \in 1..MaxRow, C \in 1..MaxCol, save \in BOOLEAN, quiet \in BOOLEAN,
       e \in Engines :
      \E d \in DefectsOf("mip", R) :
        /\ EngineMay(e, MkArgs("mip", R, C, d, save, quiet))
        /\ Enter("mip", MkArgs("mip", R, C, d, save, quiet), e, NoPrev)

\* The caller calls the same facade again with the same data and the same
\* engine behaviour, the quiet flag being free.
CallAgain ==
    /\ pc \in {"done", "raised"}
    /\ \E quiet \in BOOLEAN :
         Enter(facade, [args EXCEPT !.quietOpt = quiet], engine,
               [valid |-> TRUE, ret |-> ret, raised |-> raised,
                trace |-> trace, quietOpt |-> args.quietOpt])

\* my_colnames = ...; my_prob.variables.add(...)   (outside the try block)
AddVariables ==
    /\ pc = "variables"
    /\ trace' = Append(trace, Ev("variables.add"))
    /\ IF engine.kind = "reject_variables"
         THEN /\ raised' = [cls |-> "CplexError", msg |-> "variables.add"]
              /\ pc' = "raised"
              /\ UNCHANGED my_prob
         ELSE /\ my_prob' = AddedVariables(my_prob, args, ColNames(noCol))
              /\ pc' = "constraints"
              /\ UNCHANGED raised
    /\ UNCHANGED <<facade, args, engine, noRow, noCol, out, ret, exc, fs, prev>>

\* A = ...; my_prob.linear_constraints.add(...)   (outside the try block)
AddConstraints ==
    /\ pc = "constraints"
    /\ trace' = Append(trace, Ev("linear_constraints.add"))
    /\ IF engine.kind = "reject_constraints"
         THEN /\ raised' = [cls |-> "CplexError",
                            msg |-> "linear_constraints.add"]
              /\ pc' = "raised"
              /\ UNCHANGED my_prob
         ELSE /\ my_prob' = AddedConstraints(my_prob,
                               LinExpr(args.A, noRow, noCol),
                               Senses(noRow), args.b)
              /\ pc' = "streams"
              /\ UNCHANGED raised
    /\ UNCHANGED <<facade, args, engine, noRow, noCol, out, ret, exc, fs, prev>>

\* if quietOpt: ...
SetStreams ==
    /\ pc = "streams"
    /\ my_prob' = QuietStreams(my_prob, args.quietOpt)
    /\ trace' = IF args.quietOpt THEN Append(trace, Ev("set_streams"))
                ELSE trace
    /\ pc' = "solve"
    /\ UNCHANGED <<facade, args, engine, noRow, noCol, out, ret, exc, raised,
                   fs, prev>>

\* An exception raised inside the try block goes to the handler when the
\* except clause matches it, and to the caller otherwise.
Throw(e) ==
    IF ExceptMatches(e)
      THEN exc' = e /\ pc' = "except" /\ UNCHANGED raised
      ELSE raised' = e /\ pc' = "raised" /\ UNCHANGED exc

\* try: my_prob.solve()
Solve ==
    /\ pc = "solve"
    /\ trace' = Append(trace, Ev("solve"))
    /\ IF engine.kind = "solve_error"
         THEN /\ out' = Emit(out, my_prob, "error", "CPLEX Error")
              /\ Throw([cls |-> "CplexSolverError", msg |-> "CPLEX Error"])
         ELSE /\ out' = Emit(out, my_prob, "log", "solve log")
              /\ pc' = "save"
              /\ UNCHANGED <<exc, raised>>
    /\ UNCHANGED <<facade, args, engine, noRow, noCol, my_prob, ret, fs, prev>>

\* if saveOpt: my_prob.write(name); print('LP saved as ' + name)
Save ==
    /\ pc = "save"
    /\ IF SaveRequested(args)
         THEN /\ trace' = Append(trace, <<"write", FileName(facade)>>)
              /\ fs' = [fs EXCEPT ![FileName(facade)] = LpText(my_prob)]
              /\ out' = Emit(out, my_prob, "stdout", "LP saved")
         ELSE UNCHANGED <<trace, fs, out>>
    /\ pc' = "solution"
    /\ UNCHANGED <<facade, args, engine, noRow, noCol, my_prob, ret, exc,
                   raised, prev>>

\* x = my_prob.solution.get_values();
\* obj = my_prob.solution.get_objective_value(); return x, obj
GetSolution ==
    /\ pc = "solution"
    /\ IF engine.kind = "no_solution"
         THEN /\ trace' = Append(trace, Ev("get_values"))
              /\ out' = Emit(out, my_prob, "error", "CPLEX Error  1217")
              /\ Throw([cls |-> "CplexSolverError",
                        msg |-> "CPLEX Error  1217"])
              /\ UNCHANGED ret
         ELSE /\ trace' = trace \o << Ev("get_values"),
                                      Ev("get_objective_value") >>
              /\ ret' = Solved(GetValues(my_prob, engine), engine.obj)
              /\ pc' = "done"
              /\ UNCHANGED <<out, exc, raised>>
    /\ UNCHANGED <<facade, args, engine, noRow, noCol, my_prob, fs, prev>>

\* except CplexError as exc: print(exc); return [], -1
Except ==
    /\ pc = "except"
    /\ out' = PrintExc(out, my_prob, exc)
    /\ ret' = Failed
    /\ pc' = "done"
    /\ UNCHANGED <<facade, args, engine, noRow, noCol, my_prob, trace, exc,
                   raised, fs, prev>>

\* The call is over: its frame (arguments, locals, the engine object) is
\* gone and only the working directory remains.
Discard ==
    /\ pc \in {"done", "raised"}
    /\ pc' = "idle"
    /\ facade' = "lprog"
    /\ args' = NoArgs
    /\ engine' = NoEngine
    /\ noRow' = 0
    /\ noCol' = 0
    /\ my_prob' = NoProb
    /\ trace' = <<>>
    /\ out' = <<>>
    /\ ret' = NoRet
    /\ exc' = NoExc
    /\ raised' = NoExc
    /\ prev' = NoPrev
    /\ UNCHANGED fs

Next ==
    \/ Lprog
    \/ Mip
    \/ CallAgain
    \/ AddVariables
    \/ AddConstraints
    \/ SetStreams
    \/ Solve
    \/ Save
    \/ GetSolution
    \/ Except
    \/ Discard

Spec == Init /\ [][Next]_vars

----------------------------------------------------------------------------
(* The dense-to-sparse translation on its own: lines 82 and 90 of lprog    *)
(* (93 and 101 of mip) applied to every matrix of Matrices.                *)

\* noRow, noCol = len(A), len(A[0])
TranslateEnter ==
    /\ pc = "idle"
    /\ \E A \in Matrices :
         /\ args' = [NoArgs EXCEPT !.A = A]
         /\ noRow' = Len(A)
         /\ noCol' = Len(A[1])
    /\ pc' = "translate"
    /\ UNCHANGED <<facade, engine, my_prob, trace, out, ret, exc, raised, fs,
                   prev>>

\* A = [[[i for i in range(noCol)], A[j]] for j in range(noRow)]
TranslateRows ==
    /\ pc = "translate"
    /\ my_prob' = [NoProb EXCEPT !.lin_expr = LinExpr(args.A, noRow, noCol)]
    /\ pc' = "translated"
    /\ UNCHANGED <<facade, args, engine, noRow, noCol, trace, out, ret, exc,
                   raised, fs, prev>>

NextTranslate ==
    \/ TranslateEnter
    \/ TranslateRows

SpecTranslate == Init /\ [][NextTranslate]_vars

----------------------------------------------------------------------------
(* Vocabulary of the properties *)

HasEv(op) == \E i \in 1..Len(trace) : trace[i][1] = op

Count(op) == Cardinality({i \in 1..Len(trace) : trace[i][1] = op})

Writes(t) == SelectSeq(t, LAMBDA ev : ev[1] = "write")

\* The file names the specification fixes for the two facades.
ExpectedFile == IF facade = "lprog" THEN "lprog.lp" ELSE "mip.lp"

Rectangular(A) == \A r \in 1..Len(A) : Len(A[r]) = Len(A[1])

TypeTags == {"C", "I", "B"}

\* Valid input as the specification defines it (sections 4.1, 4.2, 6).
ValidInput(f, a) ==
    /\ Rectangular(a.A)
    /\ Len(a.b) = Len(a.A)
    /\ Len(a.c) = Len(a.A[1])
    /\ Len(a.u) = Len(a.A[1])
    /\ Len(a.l) = Len(a.A[1])
    /\ f = "mip" =>
         /\ Len(a.varType) = Len(a.A[1])
         /\ \A i \in 1..Len(a.varType) : a.varType[i] \in TypeTags

Finished == pc \in {"done", "raised"}

EngineFails ==
    engine.kind \in {"reject_variables", "reject_constraints", "solve_error",
                     "no_solution"}

\* The solve step of this call has returned without throwing.
SolveReturned == HasEv("solve") /\ engine.kind # "solve_error"

----------------------------------------------------------------------------
(* C1 *)

\* C1: whenever the model is infeasible (the engine solves and has no
\* solution), the call of either facade does not raise, and once it is over
\* it has returned the sentinel: an empty value sequence and objective -1.
C1_InfeasibleReturnsSentinel ==
    engine.kind = "no_solution" =>
        /\ pc # "raised"
        /\ raised = NoExc
        /\ pc = "done" => (ret.status = "returned" /\ ret.x = <<>>
                             /\ ret.obj = -1)

C1_Witness ==
    /\ pc = "done"
    /\ facade = "mip"
    /\ engine.kind = "no_solution"
    /\ ValidInput(facade, args)
    /\ ret.x = <<>> /\ ret.obj = -1

----------------------------------------------------------------------------
(* C2 *)

\* C2 (as claimed): whatever the engine raises during a call, also while the
\* variables or constraints are added, the call ends by returning ([], -1)
\* and nothing propagates to the caller.
C2_EveryEngineExceptionIsCaught ==
    (Finished /\ EngineFails) =>
        (pc = "done" /\ ret = Failed /\ raised = NoExc)

----------------------------------------------------------------------------
(* C3 *)

\* C3 (as claimed): on invalid input the call touches no engine object and
\* writes no file, and it ends with ShapeError or TypeTagError.
C3_InvalidInputStopsBeforeEngine ==
    (pc \notin {"idle"} /\ ~ValidInput(facade, args)) =>
        /\ trace = <<>>
        /\ Finished => raised.cls \in {"ShapeError", "TypeTagError"}

----------------------------------------------------------------------------
(* C4 *)

\* C4: once the solve step has returned without throwing and the call is
\* past the save statement, the facade's file has been written if and only
\* if saveOpt is set; the write comes after solve and before the solution is
\* read and anything is returned, whatever the outcome then is; without
\* saveOpt the call writes nothing.
C4_WriteIffPersist ==
    /\ (SolveReturned /\ pc \in {"solution", "except", "done"}) =>
          (Writes(trace) = IF args.saveOpt
                             THEN << <<"write", ExpectedFile>> >>
                             ELSE <<>>)
    /\ \A i \in 1..Len(trace) : trace[i][1] = "write" =>
          /\ i > 1 /\ trace[i - 1][1] = "solve"
          /\ \A j \in 1..i : trace[j][1] \notin {"get_values",
                                                 "get_objective_value"}
          /\ fs[ExpectedFile] # NoFile
    /\ pc \notin {"done"} => ret.status = "none"
    /\ ~args.saveOpt => Writes(trace) = <<>>

\* The write has happened although the call then fails.
C4_Witness ==
    /\ pc = "done"
    /\ args.saveOpt
    /\ engine.kind = "no_solution"
    /\ ret = Failed
    /\ Writes(trace) = << <<"write", ExpectedFile>> >>

----------------------------------------------------------------------------
(* C5 *)

\* C5 (as claimed): with saveOpt, every call that got as far as the solve
\* step leaves the facade's file present and non-empty, also when solve
\* itself raised.
C5_FilePresentAfterDispatch ==
    (pc = "done" /\ args.saveOpt /\ HasEv("solve")) =>
        Len(fs[ExpectedFile]) > 0

\* C5 (amended): with saveOpt, every call whose solve step returned without
\* throwing leaves the facade's fixed file present and non-empty when it
\* returns, whether it returns a solution or the sentinel; a call whose
\* solve step raised writes nothing; and when two consecutive calls have
\* identical inputs, both write that same file name, the file then holding
\* what the second call wrote.
C5_FilePresentWhenSolveReturns ==
    /\ (pc = "done" /\ args.saveOpt /\ SolveReturned) =>
          /\ Len(fs[ExpectedFile]) > 0
          /\ Writes(trace) = << <<"write", ExpectedFile>> >>
    /\ (pc = "done" /\ engine.kind = "solve_error") => Writes(trace) = <<>>
    /\ (pc = "done" /\ args.saveOpt /\ SolveReturned /\ prev.valid
          /\ prev.quietOpt = args.quietOpt) =>
          /\ Writes(prev.trace) = Writes(trace)
          /\ fs[ExpectedFile] = LpText(my_prob)

C5_Witness ==
    /\ pc = "done"
    /\ facade = "mip"
    /\ args.saveOpt
    /\ prev.valid /\ prev.quietOpt = args.quietOpt
    /\ engine.kind = "no_solution"
    /\ Writes(prev.trace) = << <<"write", "mip.lp">> >>
    /\ Len(fs["mip.lp"]) > 0

----------------------------------------------------------------------------
(* C6 *)

\* C6: when a call repeats the previous call of the same facade with the
\* same data, flags and engine behaviour, only quietOpt being different, it
\* ends as the previous call did: the same returned pair, or the same
\* escaped exception.
C6_QuietDoesNotChangeOutcome ==
    (Finished /\ prev.valid /\ prev.quietOpt # args.quietOpt) =>
        /\ ret = prev.ret
        /\ raised = prev.raised

C6_Witness ==
    /\ pc = "done"
    /\ prev.valid
    /\ prev.quietOpt /\ ~args.quietOpt
    /\ engine.kind = "optimal"
    /\ ret.x # <<>>
    /\ ret = prev.ret

----------------------------------------------------------------------------
(* C7 *)

\* C7: a call that returns ([], -1) has put the text of the engine's error
\* on standard output, which is none of the streams quietOpt closes, for
\* both values of quietOpt.
C7_FailureIsNeverSilent ==
    (pc = "done" /\ ret.x = <<>> /\ ret.obj = -1) =>
        /\ "stdout" \notin EngineChannels
        /\ exc # NoExc
        /\ \E i \in 1..Len(out) : out[i] = <<"stdout", exc.msg>>

C7_Witness ==
    /\ pc = "done"
    /\ ret = Failed
    /\ args.quietOpt
    /\ my_prob.streams = {}
    /\ \E i \in 1..Len(out) : out[i] = <<"stdout", exc.msg>>

----------------------------------------------------------------------------
(* C8 *)

\* C8: a call invokes solve at most once, and exactly once when it reaches
\* the try block and has gone past the solve statement, on the returning
\* and on the failing path alike; the engine calls come in the order
\* build, solve, read; and the engine object holds only what this call
\* declared, nothing of an earlier call.
C8_SolveExactlyOnce ==
    /\ Count("solve") <= 1
    /\ pc \in {"save", "solution", "except", "done"} => Count("solve") = 1
    /\ pc \in {"variables", "constraints", "streams", "solve", "raised"} =>
          Count("solve") = 0
    /\ pc = "done" => ret.status = "returned"
    /\ \A i \in 1..Len(trace) : trace[i][1] = "solve" =>
          /\ \E j \in 1..i : trace[j][1] = "linear_constraints.add"
          /\ \A j \in 1..i : trace[j][1] # "get_values"
    /\ pc # "idle" =>
          /\ trace[1][1] = "Cplex"
          /\ Count("Cplex") = 1
          /\ NumVars(my_prob) \in {0, noCol}
          /\ Len(my_prob.lin_expr) \in {0, noRow}

\* A repeated call that failed has still solved once only.
C8_Witness ==
    /\ pc = "done"
    /\ prev.valid
    /\ prev.ret = Failed
    /\ ret = Failed
    /\ Count("solve") = 1
    /\ NumVars(my_prob) = noCol

----------------------------------------------------------------------------
(* C9 *)

\* C9: for a matrix of R rows and C columns the translation yields R lists
\* in row order; list r holds the column indices 0..C-1 in order and the
\* entries of row r against them, zero entries included, so each list has
\* C entries.
C9_TranslationKeepsEveryColumn ==
    (pc = "translated" /\ Rectangular(args.A)) =>
        LET A  == args.A
            R  == Len(A)
            C  == Len(A[1])
            le == my_prob.lin_expr
        IN /\ Len(le) = R
           /\ \A r \in 1..R :
                /\ Len(le[r][1]) = C
                /\ Len(le[r][2]) = C
                /\ \A k \in 1..C : /\ le[r][1][k] = k - 1
                                   /\ le[r][2][k] = A[r][k]

C9_Witness ==
    /\ pc = "translated"
    /\ args.A = << <<0, 1>>, <<2, 0>> >>
    /\ my_prob.lin_expr = << << <<0, 1>>, <<0, 1>> >>,
                             << <<0, 1>>, <<2, 0>> >> >>

----------------------------------------------------------------------------
(* C10 *)

\* C10 (as claimed): for valid input of R rows the constraints handed to
\* the engine are R coefficient lists, R senses each equal to "L", and the
\* R right-hand sides b.
C10_OneSensePerConstraint ==
    (HasEv("linear_constraints.add") /\ pc # "raised"
       /\ ValidInput(facade, args)) =>
        /\ Len(my_prob.lin_expr) = noRow
        /\ Len(my_prob.senses) = noRow
        /\ \A r \in 1..Len(my_prob.senses) : my_prob.senses[r] = <<"L">>
        /\ my_prob.rhs = args.b

====
